---------------------------- MODULE Spec2Model ----------------------------
(***************************************************************************)
(* A model of modules/interrogate/moondream3.py: the Moondream 3 handler   *)
(* of the interrogate (VQA) subsystem.                                     *)
(*                                                                         *)
(* Conventions                                                             *)
(*   - A Python str is a sequence of one-character strings, so that the    *)
(*     text operations (replace, lower, in, re.sub, strip, re.split) are   *)
(*     computed character by character.                                    *)
(*   - A Python float is a record [k, v]: k = "fin" with v the value in    *)
(*     units of 1/One, k = "inf" with v the sign, or k = "nan".            *)
(*   - A call of a function of the module is an operator from the globals  *)
(*     before the call (a record g) and the arguments to an outcome        *)
(*     [g, raised, exc, val, shown, log]: the globals after the call,      *)
(*     whether it raised and with which message, its return value, what it *)
(*     handed to errors.display and what it handed to the external model.  *)
(*   - What the external collaborators do in one call (the model provider  *)
(*     raising or not, the raw response of a capability) is the call's     *)
(*     input ext, drawn by the action.                                     *)
(***************************************************************************)
EXTENDS Integers, Sequences, FiniteSets, TLC

VARIABLES
    moondream3_model,   \* the global model: None, or the repository it was loaded from
    loaded,             \* the global `loaded`: None or a repository
    image_cache,        \* the global image_cache: cache key -> encoded-image handle
    encode_calls,       \* how often the external model encoded an image so far
    hist,               \* the encode_image and clear_cache calls made so far, in order
    call                \* the call that returned last, with its outcome, until its caller takes it

vars == <<moondream3_model, loaded, image_cache, encode_calls, hist, call>>

\* ------------------------------------------------------------------ bounds

\* The longest `points` / `objects` sequence of a raw response.
MaxEntries == 3
\* The most words of a generated question.
MaxWords == 3
\* The most encode_image and clear_cache calls of one run.
MaxCalls == 3
\* The calls of predict with use_cache in one behaviour of SpecPredict.
MaxCached == 1

\* 1.0 in the fixed-point unit of the modelled floats (the 1.0 of min(1.0, ...)).
One == 10

\* ------------------------------------------------------------------ values

None == "None"

Fin(n) == [k |-> "fin", v |-> n]
Inf(sign) == [k |-> "inf", v |-> sign]
NaN == [k |-> "nan", v |-> 0]

\* A value found in a raw response: a number, a string that float() parses, a
\* string it does not parse, None, or (in a record) a field that is absent.
Num(n) == [k |-> "num", v |-> n]
NumStr(n) == [k |-> "numstr", v |-> n]
RawInf(sign) == [k |-> "inf", v |-> sign]
RawNaN == [k |-> "nan", v |-> 0]
BadStr == [k |-> "str", v |-> 0]
NoneValue == [k |-> "none", v |-> 0]
Missing == [k |-> "missing", v |-> 0]

ValueError == "could not convert string to float"
TypeError == "float() argument must be a string or a real number"
NotIterable == "argument of type 'NoneType' is not iterable"
NotIterableLoop == "'NoneType' object is not iterable"
LoadError == "from_pretrained failed"
EvalError == "eval failed"
CompileError == "compile failed"
EncodeError == "encode_image failed"
CapabilityError == "model capability failed"

\* ------------------------------------------------------------------ outcomes

\* Python's None as a return value.
NoneVal == [t |-> "none"]

Ok(g, val) == [g |-> g, raised |-> FALSE, exc |-> "", val |-> val, shown |-> <<>>, log |-> <<>>]
Raise(g, msg) == [g |-> g, raised |-> TRUE, exc |-> msg, val |-> NoneVal, shown |-> <<>>, log |-> <<>>]

\* The outcome r with the external calls of `log` made before its own.
After(log, r) == [r EXCEPT !.log = log \o r.log]

Globals ==
    [model |-> moondream3_model, loaded |-> loaded, cache |-> image_cache,
     n |-> encode_calls, hist |-> hist]

\* A call of an external collaborator: the capability, the model it is called
\* on (the repository the model was loaded from), the image or encoded image
\* handed over, an option (the caption length) and the text handed over.
ExtCall(cap, model, input, opt, arg) ==
    [cap |-> cap, model |-> model, input |-> input, opt |-> opt, arg |-> arg]

\* What a capability is given as its image: the image itself, or the handle
\* that encode_image of the model loaded from repository `by` returned on its
\* n-th call.
Img(image) == [t |-> "image", id |-> image, by |-> None, n |-> 0]
Handle(image, by, n) == [t |-> "encoded", id |-> image, by |-> by, n |-> n]
NoInput == [t |-> "none", id |-> "", by |-> None, n |-> 0]

\* ------------------------------------------------------------------ floats

\* float(v)
float(v) ==
    CASE v.k = "num" -> [ok |-> TRUE, f |-> Fin(v.v), exc |-> ""]
      [] v.k = "numstr" -> [ok |-> TRUE, f |-> Fin(v.v), exc |-> ""]
      [] v.k = "inf" -> [ok |-> TRUE, f |-> Inf(v.v), exc |-> ""]
      [] v.k = "nan" -> [ok |-> TRUE, f |-> NaN, exc |-> ""]
      [] v.k = "str" -> [ok |-> FALSE, f |-> NaN, exc |-> ValueError]
      [] OTHER -> [ok |-> FALSE, f |-> NaN, exc |-> TypeError]

Tier(a) == IF a.k = "inf" THEN a.v ELSE 0

\* a < b on floats: every comparison with nan is false.
Lt(a, b) ==
    /\ a.k # "nan"
    /\ b.k # "nan"
    /\ \/ Tier(a) < Tier(b)
       \/ Tier(a) = Tier(b) /\ a.k = "fin" /\ b.k = "fin" /\ a.v < b.v

\* Python's min(a, b) and max(a, b): the first argument unless the second is
\* strictly smaller (greater).
min(a, b) == IF Lt(b, a) THEN b ELSE a
max(a, b) == IF Lt(a, b) THEN b ELSE a

\* clamp without its lower bound: min(1.0, f).
ClampUpperOnly(f) == min(Fin(One), f)

\* max(0.0, min(1.0, f))
clamp(f) == max(Fin(0), min(Fin(One), f))

\* ------------------------------------------------------------------ load_model

LoadFaults == {"none", "from_pretrained", "eval", "compile"}

\* load_model(repo); fault names the call of the reload, if any, that raises.
\* from_pretrained(None) raises whatever the fault.
load_model(g, repo, fault) ==
    IF g.model = None \/ g.loaded # repo
    THEN LET pretrained == <<ExtCall("from_pretrained", repo, NoInput, "", <<>>)>> IN
         IF fault = "from_pretrained" \/ repo = None
         THEN After(pretrained, Raise([g EXCEPT !.model = None], LoadError))
         ELSE IF fault = "eval"
              THEN After(pretrained, Raise([g EXCEPT !.model = repo], EvalError))
              ELSE IF fault = "compile"
                   THEN After(pretrained, Raise([g EXCEPT !.model = repo], CompileError))
                   ELSE After(pretrained \o <<ExtCall("move_model", repo, NoInput, "", <<>>)>>,
                              Ok([g EXCEPT !.model = repo, !.loaded = repo], repo))
    ELSE After(<<ExtCall("move_model", g.model, NoInput, "", <<>>)>>, Ok(g, g.model))

\* ------------------------------------------------------------------ raw responses

\* A raw response: a dict with one key of interest (`key`) whose value is a
\* list (`entries`) or None, a list or tuple (`items`), or None.
RawDict(key, entries) ==
    [t |-> "dict", key |-> key, isseq |-> TRUE, entries |-> entries, items |-> <<>>]
RawDictNull(key) ==
    [t |-> "dict", key |-> key, isseq |-> FALSE, entries |-> <<>>, items |-> <<>>]
RawList(items) ==
    [t |-> "list", key |-> "", isseq |-> FALSE, entries |-> <<>>, items |-> items]
RawTuple(items) ==
    [t |-> "tuple", key |-> "", isseq |-> FALSE, entries |-> <<>>, items |-> items]
RawNone == [t |-> "none", key |-> "", isseq |-> FALSE, entries |-> <<>>, items |-> <<>>]

\* An entry of `points` or `objects`: a dict of fields, or None.
Entry(fields) == [t |-> "dict", f |-> fields]
NoneEntry(fields) == [t |-> "none", f |-> fields]

\* 'name' in entry: raises on None.
HasField(e, name) == e.f[name].k # "missing"

\* ------------------------------------------------------------------ point

\* What the external model is made to do during one call: ext.load is the
\* LoadFaults member of its load_model, ext.cap whether the invoked
\* capability raises, ext.enc whether encode_image of the model raises, and
\* ext.raw the raw response of the capability.
Ext(load, cap, enc, raw) == [load |-> load, cap |-> cap, enc |-> enc, raw |-> raw]

PointsVal(coordinates) == [t |-> "list", items |-> coordinates]

Parsed(coordinates) == [raised |-> FALSE, exc |-> "", items |-> coordinates, shown |-> <<>>]
ParseError(msg) == [raised |-> TRUE, exc |-> msg, items |-> <<>>, shown |-> <<>>]

\* One pass of `for point_data in points_list` from entry i on.
RECURSIVE point_loop(_, _, _)
point_loop(points_list, i, coordinates) ==
    IF i > Len(points_list)
    THEN Parsed(coordinates)
    ELSE LET point_data == points_list[i] IN
         IF point_data.t # "dict"
         THEN ParseError(NotIterable)
         ELSE IF HasField(point_data, "x") /\ HasField(point_data, "y")
              THEN LET x == float(point_data.f.x)
                       y == float(point_data.f.y)
                   IN IF ~x.ok
                      THEN ParseError(x.exc)
                      ELSE IF ~y.ok
                           THEN ParseError(y.exc)
                           ELSE point_loop(points_list, i + 1,
                                    Append(coordinates, <<clamp(x.f), clamp(y.f)>>))
              ELSE point_loop(points_list, i + 1, coordinates)

\* `if coordinates: return coordinates`, else on to `return None`; r is the
\* outcome of the loop.
point_coordinates(g, r) ==
    IF r.raised
    THEN Raise(g, r.exc)
    ELSE IF r.items # <<>> THEN Ok(g, PointsVal(r.items)) ELSE Ok(g, NoneVal)

\* The fallback for [x, y]: lines 245-250, x and y being float() of the two.
point_pair(g, x, y) ==
    IF ~x.ok
    THEN Raise(g, x.exc)
    ELSE IF ~y.ok
         THEN Raise(g, y.exc)
         ELSE Ok(g, PointsVal(<<<<clamp(x.f), clamp(y.f)>>>>))

\* point_parse returning the list it built even when it is empty, and taking
\* no list or tuple for a pair.
PointParseNoSentinel(g, result) ==
    IF result.t = "dict" /\ result.key = "points"
    THEN [point_coordinates(g, point_loop(result.entries, 1, <<>>)) EXCEPT
             !.val = IF @ = NoneVal THEN PointsVal(<<>>) ELSE @]
    ELSE Ok(g, NoneVal)

\* The parsing of point: lines 230-253.
point_parse(g, result) ==
    IF result.t = "dict" /\ result.key = "points"
    THEN IF result.isseq /\ Len(result.entries) > 0
         THEN point_coordinates(g, point_loop(result.entries, 1, <<>>))
         ELSE Ok(g, NoneVal)
    ELSE IF result.t \in {"list", "tuple"} /\ Len(result.items) = 2
         THEN point_pair(g, float(result.items[1]), float(result.items[2]))
         ELSE Ok(g, NoneVal)

\* A function of the module from its call of a capability on: m is the outcome
\* of its load_model (or of all it did before), invoked the call of the
\* capability, and r the outcome of what follows if the capability returns.
invoke(m, invoked, ext, r) ==
    IF m.raised
    THEN m
    ELSE IF ext.cap = "raise"
         THEN After(m.log \o <<invoked>>, Raise(m.g, CapabilityError))
         ELSE After(m.log \o <<invoked>>, r)

\* point from `model = load_model(repo)` on; m is the outcome of load_model.
point_loaded(m, image, object_name, ext) ==
    invoke(m, ExtCall("point", m.val, Img(image), "", object_name), ext,
           point_parse(m.g, ext.raw))

\* point(image, object_name, repo)
point(g, image, object_name, repo, ext) ==
    point_loaded(load_model(g, repo, ext.load), image, object_name, ext)

\* ------------------------------------------------------------------ detect

BoxFields == <<"x_min", "y_min", "x_max", "y_max">>

Detection(object_name, bbox) ==
    [label |-> object_name, bbox |-> bbox, confidence |-> Fin(One)]

\* The body of the try of one `obj`: the detection to append (at most one),
\* or the exception the except clause reports.
detect_entry(obj, object_name) ==
    IF obj.t # "dict"
    THEN ParseError(NotIterable)
    ELSE IF \A i \in 1..4 : HasField(obj, BoxFields[i])
         THEN LET c == [i \in 1..4 |-> float(obj.f[BoxFields[i]])] IN
              IF \E i \in 1..4 : ~c[i].ok
              THEN ParseError(c[CHOOSE i \in 1..4 : ~c[i].ok /\ \A j \in 1..(i - 1) : c[j].ok].exc)
              ELSE Parsed(<<Detection(object_name, [i \in 1..4 |-> clamp(c[i].f)])>>)
         ELSE Parsed(<<>>)

DetectContext == "Moondream3 detect parsing"

\* detect_loop with the try around the loop instead of inside it: the first
\* exception ends the loop.
DetectLoopAbort(objects_list, object_name, i, detections, shown) ==
    LET bad == {j \in 1..Len(objects_list) : detect_entry(objects_list[j], object_name).raised}
        stop == IF bad = {} THEN Len(objects_list) + 1
                ELSE CHOOSE j \in bad : \A k \in bad : j <= k
        kept == [j \in 1..(stop - 1) |-> detect_entry(objects_list[j], object_name).items]
        Flat[j \in 0..(stop - 1)] == IF j = 0 THEN <<>> ELSE Flat[j - 1] \o kept[j]
    IN [Parsed(Flat[stop - 1]) EXCEPT
           !.shown = IF bad = {} THEN <<>>
                     ELSE <<<<detect_entry(objects_list[stop], object_name).exc, DetectContext>>>>]

\* `for obj in objects_list` from entry i on: an exception of one entry is
\* shown and the loop goes on.
RECURSIVE detect_loop(_, _, _, _, _)
detect_loop(objects_list, object_name, i, detections, shown) ==
    IF i > Len(objects_list)
    THEN [Parsed(detections) EXCEPT !.shown = shown]
    ELSE IF detect_entry(objects_list[i], object_name).raised
         THEN detect_loop(objects_list, object_name, i + 1, detections,
                  Append(shown, <<detect_entry(objects_list[i], object_name).exc, DetectContext>>))
         ELSE detect_loop(objects_list, object_name, i + 1,
                  detections \o detect_entry(objects_list[i], object_name).items, shown)

\* `return detections`; r is the outcome of the loop.
detect_detections(g, r) == [Ok(g, PointsVal(r.items)) EXCEPT !.shown = r.shown]

\* The parsing of detect: lines 293-320.
detect_parse(g, result, object_name) ==
    IF result.t = "dict" /\ result.key = "objects"
    THEN IF ~result.isseq
         THEN Raise(g, NotIterableLoop)
         ELSE detect_detections(g, detect_loop(result.entries, object_name, 1, <<>>, <<>>))
    ELSE Ok(g, PointsVal(<<>>))

\* detect from `model = load_model(repo)` on; m is the outcome of load_model.
detect_loaded(m, image, object_name, ext) ==
    invoke(m, ExtCall("detect", m.val, Img(image), "", object_name), ext,
           detect_parse(m.g, ext.raw, object_name))

\* detect(image, object_name, repo, max_objects): max_objects only travels to
\* the model in the settings.
detect(g, image, object_name, repo, ext) ==
    detect_loaded(load_model(g, repo, ext.load), image, object_name, ext)

\* ------------------------------------------------------------------ encode_image, clear_cache

\* An optional str argument: None, or the string s.
NoKey == [some |-> FALSE, s |-> <<>>]
Key(s) == [some |-> TRUE, s |-> s]

\* `if cache_key`: neither None nor the empty string.
Truthy(cache_key) == cache_key.some /\ cache_key.s # <<>>

EmptyCache == [key \in {} |-> NoInput]

\* Store that keeps only the key it stores.
StoreAlone(cache, key, encoded) == [k \in {key} |-> encoded]

Store(cache, key, encoded) ==
    [k \in DOMAIN cache \cup {key} |-> IF k = key THEN encoded ELSE cache[k]]

\* The outcome r of encode_image or clear_cache, entered in the history of
\* such calls with the number of external encodes made up to its end.
Logged(op, cache_key, r) ==
    [r EXCEPT !.g.hist = Append(@,
        [op |-> op, key |-> cache_key, raised |-> r.raised, val |-> r.val,
         n |-> r.g.n, log |-> r.log])]

\* encode_image from `model = load_model(loaded)` on; m is the outcome of
\* load_model.
encode_loaded(m, image, cache_key, ext) ==
    IF m.raised
    THEN m
    ELSE After(m.log \o <<ExtCall("encode_image", m.val, Img(image), "", <<>>)>>,
             IF ext.enc = "raise"
             THEN Raise([m.g EXCEPT !.n = @ + 1], EncodeError)
             ELSE Ok(IF Truthy(cache_key)
                     THEN [m.g EXCEPT !.n = @ + 1,
                                      !.cache = Store(@, cache_key.s,
                                                      Handle(image, m.val, m.g.n + 1))]
                     ELSE [m.g EXCEPT !.n = @ + 1],
                     Handle(image, m.val, m.g.n + 1)))

\* encode_image that encodes and stores whether or not the key is cached.
EncodeAlways(g, image, cache_key, ext) ==
    Logged("encode_image", cache_key,
        encode_loaded(load_model(g, g.loaded, ext.load), image, cache_key, ext))

\* encode_image(image, cache_key)
encode_image(g, image, cache_key, ext) ==
    Logged("encode_image", cache_key,
        IF Truthy(cache_key) /\ cache_key.s \in DOMAIN g.cache
        THEN Ok(g, g.cache[cache_key.s])
        ELSE encode_loaded(load_model(g, g.loaded, ext.load), image, cache_key, ext))

\* clear_cache()
clear_cache(g) == Logged("clear_cache", NoKey, Ok([g EXCEPT !.cache = EmptyCache], NoneVal))

\* ------------------------------------------------------------------ query, caption

\* What a capability of the external model answers: opaque to this module.
Response(cap, model, opt, arg, stream) ==
    [t |-> "response", cap |-> cap, model |-> model, opt |-> opt, arg |-> arg,
     stream |-> stream]

\* f"{id(image)}_{question}"
CacheKey(image, question) == Key(<<image, "_">> \o question)

\* query from `with devices.inference_context()` on: model is the model that
\* load_model returned and e the outcome up to image_input, its value.
query_encoded(model, e, question, stream, ext) ==
    invoke(e, ExtCall("query", model, e.val, "", question), ext,
           Ok(e.g, Response("query", model, "", question, stream)))

\* query from `model = load_model(repo)` on; m is the outcome of load_model.
query_loaded(m, image, question, stream, use_cache, ext) ==
    IF m.raised
    THEN m
    ELSE query_encoded(m.val,
             After(m.log, IF use_cache
                          THEN encode_image(m.g, image, CacheKey(image, question), ext)
                          ELSE Ok(m.g, Img(image))),
             question, stream, ext)

\* query(image, question, repo, stream, use_cache): the sampling settings only
\* travel to the model.
query(g, image, question, repo, stream, use_cache, ext) ==
    query_loaded(load_model(g, repo, ext.load), image, question, stream, use_cache, ext)

\* caption from `model = load_model(repo)` on; m is the outcome of load_model.
caption_loaded(m, image, length, stream, ext) ==
    invoke(m, ExtCall("caption", m.val, Img(image), length, <<>>), ext,
           Ok(m.g, Response("caption", m.val, length, <<>>, stream)))

\* caption(image, repo, length, stream)
caption(g, image, repo, length, stream, ext) ==
    caption_loaded(load_model(g, repo, ext.load), image, length, stream, ext)

\* ------------------------------------------------------------------ text

UpperCase == <<"A", "B", "C", "D", "E", "F", "G", "H", "I", "J", "K", "L", "M", "N", "O", "P", "Q", "R", "S", "T", "U", "V", "W", "X", "Y", "Z">>
LowerCase == <<"a", "b", "c", "d", "e", "f", "g", "h", "i", "j", "k", "l", "m", "n", "o", "p", "q", "r", "s", "t", "u", "v", "w", "x", "y", "z">>
Digits == <<"0", "1", "2", "3", "4", "5", "6", "7", "8", "9">>

Range(seq) == {seq[i] : i \in 1..Len(seq)}

\* \w and \s of re, on the characters of the model.
WordChars == Range(UpperCase) \cup Range(LowerCase) \cup Range(Digits) \cup {"_"}
Whitespace == {" ", "\t", "\n"}

lower_char(c) ==
    IF c \in Range(UpperCase)
    THEN LowerCase[CHOOSE i \in 1..Len(UpperCase) : UpperCase[i] = c]
    ELSE c

\* str.lower()
lower(s) == [i \in 1..Len(s) |-> lower_char(s[i])]

\* str.replace(c, '') and str.replace(c, d) for single characters.
remove_char(s, c) == SelectSeq(s, LAMBDA ch : ch # c)
replace_char(s, c, d) == [i \in 1..Len(s) |-> IF s[i] = c THEN d ELSE s[i]]

\* sub in s
contains(s, sub) ==
    \E i \in 0..(Len(s) - Len(sub)) : SubSeq(s, i + 1, i + Len(sub)) = sub

\* re's \bphrase\b with IGNORECASE matches s at i (phrase is lower case and
\* starts and ends with a word character).
phrase_at(s, i, phrase) ==
    /\ i + Len(phrase) - 1 <= Len(s)
    /\ lower(SubSeq(s, i, i + Len(phrase) - 1)) = phrase
    /\ i = 1 \/ s[i - 1] \notin WordChars
    /\ i + Len(phrase) > Len(s) \/ s[i + Len(phrase)] \notin WordChars

\* re.sub(rf'\b{phrase}\b', '', s, flags=re.IGNORECASE), from position i on:
\* the leftmost matches, not overlapping.
RECURSIVE sub_phrase(_, _, _)
sub_phrase(s, i, phrase) ==
    IF i > Len(s)
    THEN <<>>
    ELSE IF phrase_at(s, i, phrase)
         THEN sub_phrase(s, i + Len(phrase), phrase)
         ELSE <<s[i]>> \o sub_phrase(s, i + 1, phrase)

\* for phrase in phrases: s = re.sub(...)
RECURSIVE sub_phrases(_, _, _)
sub_phrases(s, phrases, k) ==
    IF k > Len(phrases) THEN s ELSE sub_phrases(sub_phrase(s, 1, phrases[k]), phrases, k + 1)

\* re.sub(r'[?.!,]', '', s)
sub_punctuation(s) == SelectSeq(s, LAMBDA ch : ch \notin {"?", ".", "!", ","})

\* str.strip()
strip(s) ==
    LET inked == {i \in 1..Len(s) : s[i] \notin Whitespace} IN
    IF inked = {}
    THEN <<>>
    ELSE SubSeq(s, CHOOSE i \in inked : \A j \in inked : i <= j,
                   CHOOSE i \in inked : \A j \in inked : j <= i)

\* The end of the run of whitespace of s that starts at i (i - 1 if s has no
\* whitespace at i).
RECURSIVE space_end(_, _)
space_end(s, i) ==
    IF i <= Len(s) /\ s[i] \in Whitespace THEN space_end(s, i + 1) ELSE i - 1

\* re.sub(r'^\s*the\s+', '', s, flags=re.IGNORECASE)
sub_leading_the(s) ==
    LET a == space_end(s, 1)
        b == space_end(s, a + 4)
    IN IF a + 3 <= Len(s) /\ lower(SubSeq(s, a + 1, a + 3)) = <<"t", "h", "e">> /\ b >= a + 4
       THEN SubSeq(s, b + 1, Len(s))
       ELSE s

\* r'\s+and\s+' with IGNORECASE matches s from i on.
and_at(s, i) ==
    LET a == space_end(s, i) IN
    /\ a >= i
    /\ a + 3 <= Len(s)
    /\ lower(SubSeq(s, a + 1, a + 3)) = <<"a", "n", "d">>
    /\ space_end(s, a + 4) >= a + 4

\* re.split(r'\s+and\s+', s, flags=re.IGNORECASE)[0]
split_and_first(s) ==
    LET hits == {i \in 1..Len(s) : and_at(s, i)} IN
    IF hits = {} THEN s ELSE SubSeq(s, 1, (CHOOSE i \in hits : \A j \in hits : i <= j) - 1)

Str(text) == [t |-> "str", text |-> text]
Tuple(text, payload) == [t |-> "tuple", text |-> text, payload |-> payload]

\* f"{v:.3f}" of a clamped coordinate: its digits before and after the point.
format3f(f) == <<f.v \div One, (f.v % One) * (1000 \div One)>>

\* ------------------------------------------------------------------ predict

S_caption == <<"c", "a", "p", "t", "i", "o", "n">>
S_CAPTION == <<"C", "A", "P", "T", "I", "O", "N">>
S_DETAILED_CAPTION == <<"D", "E", "T", "A", "I", "L", "E", "D", " ", "C", "A", "P", "T", "I", "O", "N">>
S_MORE_DETAILED_CAPTION == <<"M", "O", "R", "E", " ", "D", "E", "T", "A", "I", "L", "E", "D", " ", "C", "A", "P", "T", "I", "O", "N">>
S_more_detailed == <<"m", "o", "r", "e", " ", "d", "e", "t", "a", "i", "l", "e", "d">>
S_very_long == <<"v", "e", "r", "y", " ", "l", "o", "n", "g">>
S_detailed == <<"d", "e", "t", "a", "i", "l", "e", "d">>
S_long == <<"l", "o", "n", "g">>
S_short == <<"s", "h", "o", "r", "t">>
S_brief == <<"b", "r", "i", "e", "f">>
S_where_is == <<"w", "h", "e", "r", "e", " ", "i", "s">>
S_locate == <<"l", "o", "c", "a", "t", "e">>
S_find == <<"f", "i", "n", "d">>
S_point == <<"p", "o", "i", "n", "t">>
S_point_at == <<"p", "o", "i", "n", "t", " ", "a", "t">>
S_detect == <<"d", "e", "t", "e", "c", "t">>
S_find_all == <<"f", "i", "n", "d", " ", "a", "l", "l">>
S_bounding_box == <<"b", "o", "u", "n", "d", "i", "n", "g", " ", "b", "o", "x">>
S_bbox == <<"b", "b", "o", "x">>
S_and == <<" ", "a", "n", "d", " ">>
S_describe == <<"D", "e", "s", "c", "r", "i", "b", "e", " ", "t", "h", "i", "s", " ", "i", "m", "a", "g", "e", ".">>

\* question.replace('<', '').replace('>', '').replace('_', ' ')
clean_question(question) ==
    replace_char(remove_char(remove_char(question, "<"), ">"), "_", " ")

\* select_mode with the detect test before the point test.
SelectModeDetectFirst(question, mode) ==
    IF mode # None
    THEN mode
    ELSE LET question_lower == lower(question) IN
         IF contains(question_lower, S_caption)
         THEN IF contains(question_lower, S_more_detailed) \/ contains(question_lower, S_very_long)
              THEN "caption_long"
              ELSE IF contains(question_lower, S_detailed) \/ contains(question_lower, S_long)
                   THEN "caption_normal"
                   ELSE IF contains(question_lower, S_short) \/ contains(question_lower, S_brief)
                        THEN "caption_short"
                        ELSE IF question = S_CAPTION THEN "caption_short" ELSE "caption_normal"
         ELSE IF \/ contains(question_lower, S_detect)
                 \/ contains(question_lower, S_bounding_box)
                 \/ contains(question_lower, S_bbox)
              THEN "detect"
              ELSE IF \/ contains(question_lower, S_where_is)
                      \/ contains(question_lower, S_locate)
                      \/ contains(question_lower, S_find)
                      \/ contains(question_lower, S_point)
                   THEN "point"
                   ELSE "query"

\* The mode predict works in: lines 348-381, on the cleaned question.
select_mode(question, mode) ==
    IF mode # None
    THEN mode
    ELSE LET question_lower == lower(question) IN
         IF question \in {S_CAPTION, S_caption} \/ contains(question_lower, S_caption)
         THEN IF contains(question_lower, S_more_detailed) \/ contains(question_lower, S_very_long)
              THEN "caption_long"
              ELSE IF contains(question_lower, S_detailed) \/ contains(question_lower, S_long)
                   THEN "caption_normal"
                   ELSE IF contains(question_lower, S_short) \/ contains(question_lower, S_brief)
                        THEN "caption_short"
                        ELSE IF question = S_CAPTION
                             THEN "caption_short"
                             ELSE IF question = S_DETAILED_CAPTION
                                  THEN "caption_normal"
                                  ELSE IF question = S_MORE_DETAILED_CAPTION
                                       THEN "caption_long"
                                       ELSE "caption_normal"
         ELSE IF \/ contains(question_lower, S_where_is)
                 \/ contains(question_lower, S_locate)
                 \/ contains(question_lower, S_find)
                 \/ contains(question_lower, S_point)
              THEN "point"
              ELSE IF \/ contains(question_lower, S_detect)
                      \/ contains(question_lower, S_bounding_box)
                      \/ contains(question_lower, S_bbox)
                   THEN "detect"
                   ELSE "query"

PointPhrases == <<S_point_at, S_where_is, S_locate, S_find>>
DetectPhrases == <<S_detect, S_find_all, S_bounding_box, S_bbox, S_find>>

\* The object name of point mode: lines 395-402.
point_object_name(question) ==
    sub_leading_the(strip(sub_punctuation(sub_phrases(question, PointPhrases, 1))))

\* `if ' and ' in object_name.lower()`: lines 428-429.
first_object(object_name) ==
    IF contains(lower(object_name), S_and)
    THEN strip(split_and_first(object_name))
    ELSE object_name

\* The object name of detect mode: lines 419-429.
detect_object_name(question) ==
    first_object(sub_leading_the(strip(sub_punctuation(sub_phrases(question, DetectPhrases, 1)))))

\* The text of point mode: lines 407-414.
point_text(result) ==
    IF Len(result) = 1
    THEN <<"Found at coordinates: ", format3f(result[1][1]), format3f(result[1][2])>>
    ELSE <<"Found ", Len(result), " instances:">>
             \o [i \in 1..Len(result) |-> <<i, format3f(result[i][1]), format3f(result[i][2])>>]

\* The text of detect mode: lines 435-437.
detect_text(results) ==
    [i \in 1..Len(results) |->
        <<results[i].label, [j \in 1..4 |-> format3f(results[i].bbox[j])],
          "confidence: ", results[i].confidence.v \div One>>]

\* What predict returns in point mode: lines 405-416, r being the outcome of
\* point.
point_reply(r) ==
    IF r.raised
    THEN r
    ELSE IF r.val.t = "list" /\ r.val.items # <<>>
         THEN [r EXCEPT !.val = Tuple(point_text(r.val.items),
                                    [t |-> "points", items |-> r.val.items])]
         ELSE [r EXCEPT !.val = Tuple(<<"Object not found">>, NoneVal)]

\* What predict returns in detect mode: lines 434-439, r being the outcome of
\* detect.
detect_reply(r) ==
    IF r.raised
    THEN r
    ELSE IF r.val.items # <<>>
         THEN [r EXCEPT !.val = Tuple(detect_text(r.val.items),
                                    [t |-> "detections", items |-> r.val.items])]
         ELSE [r EXCEPT !.val = Tuple(<<"No objects detected">>, NoneVal)]

\* The try block of predict: lines 387-446.
dispatch(g, question, image, repo, mode, stream, use_cache, ext) ==
    IF mode = "caption_short"
    THEN caption(g, image, repo, "short", stream, ext)
    ELSE IF mode = "caption_long"
    THEN caption(g, image, repo, "long", stream, ext)
    ELSE IF mode \in {"caption", "caption_normal"}
    THEN caption(g, image, repo, "normal", stream, ext)
    ELSE IF mode = "point"
    THEN point_reply(point(g, image, point_object_name(question), repo, ext))
    ELSE IF mode = "detect"
    THEN detect_reply(detect(g, image, detect_object_name(question), repo, ext))
    ELSE query(g, image, IF Len(question) < 2 THEN S_describe ELSE question,
               repo, stream, use_cache, ext)

PredictContext == "Moondream3"

\* The except clause of predict: lines 448-451, r being the outcome of the
\* try block.
except(r) ==
    IF r.raised
    THEN [r EXCEPT !.raised = FALSE, !.exc = "",
                   !.shown = Append(@, <<r.exc, PredictContext>>),
                   !.val = Str(<<"Error: ", r.exc>>)]
    ELSE r

\* predict without its except clause.
PredictNoExcept(g, question, image, repo, mode, stream, use_cache, ext) ==
    dispatch(g, clean_question(question), image, repo,
             select_mode(clean_question(question), mode), stream, use_cache, ext)

\* predict(question, image, repo, model_name, mode, stream, use_cache)
predict(g, question, image, repo, mode, stream, use_cache, ext) ==
    except(dispatch(g, clean_question(question), image, repo,
                    select_mode(clean_question(question), mode), stream, use_cache, ext))

\* ------------------------------------------------------------------ the state machine

RepoA == "moondream/moondream3-preview"
RepoB == "vikhyatk/moondream-next"
Image1 == "1"

NoCall == [op |-> "none"]

Init ==
    /\ moondream3_model = None
    /\ loaded = None
    /\ image_cache = EmptyCache
    /\ encode_calls = 0
    /\ hist = <<>>
    /\ call = NoCall

\* The globals as the call left them.
Commit(r) ==
    /\ moondream3_model' = r.g.model
    /\ loaded' = r.g.loaded
    /\ image_cache' = r.g.cache
    /\ encode_calls' = r.g.n
    /\ hist' = r.g.hist

\* The record of a call that has returned (or raised): its arguments, its
\* outcome and the globals it started from.
Returned(op, args, r) ==
    [op |-> op, args |-> args, raised |-> r.raised, exc |-> r.exc, val |-> r.val,
     shown |-> r.shown, log |-> r.log, before |-> Globals]

\* The call returns (or raises): the globals are as it left them.
Finish(op, args, r) ==
    /\ Commit(r)
    /\ call' = Returned(op, args, r)

\* The caller takes the result of the last call.
Return ==
    /\ call.op # "none"
    /\ call' = NoCall
    /\ UNCHANGED <<moondream3_model, loaded, image_cache, encode_calls, hist>>

PointCall(image, object_name, repo, ext) ==
    /\ call.op = "none"
    /\ Finish("point",
              [image |-> image, object_name |-> object_name, repo |-> repo, ext |-> ext],
              point(Globals, image, object_name, repo, ext))

DetectCall(image, object_name, repo, ext) ==
    /\ call.op = "none"
    /\ Finish("detect",
              [image |-> image, object_name |-> object_name, repo |-> repo, ext |-> ext],
              detect(Globals, image, object_name, repo, ext))

LoadModelCall(repo, fault) ==
    /\ call.op = "none"
    /\ Finish("load_model", [repo |-> repo, fault |-> fault],
              load_model(Globals, repo, fault))

EncodeImageCall(image, cache_key, ext) ==
    /\ call.op = "none"
    /\ Len(hist) < MaxCalls
    /\ Finish("encode_image",
              [image |-> image, cache_key |-> cache_key, ext |-> ext],
              encode_image(Globals, image, cache_key, ext))

ClearCacheCall ==
    /\ call.op = "none"
    /\ Len(hist) < MaxCalls
    /\ Finish("clear_cache", [none |-> None],
              clear_cache(Globals))

QueryCall(image, question, repo, stream, use_cache, ext) ==
    /\ call.op = "none"
    /\ use_cache => Len(hist) < MaxCalls
    /\ Finish("query",
              [image |-> image, question |-> question, repo |-> repo, stream |-> stream,
               use_cache |-> use_cache, ext |-> ext],
              query(Globals, image, question, repo, stream, use_cache, ext))

CaptionCall(image, repo, length, stream, ext) ==
    /\ call.op = "none"
    /\ Finish("caption",
              [image |-> image, repo |-> repo, length |-> length, stream |-> stream,
               ext |-> ext],
              caption(Globals, image, repo, length, stream, ext))

PredictCall(question, image, repo, mode, stream, use_cache, ext) ==
    /\ call.op = "none"
    /\ use_cache => Len(hist) < MaxCalls
    /\ Finish("predict",
              [question |-> question, image |-> image, repo |-> repo, mode |-> mode,
               stream |-> stream, use_cache |-> use_cache, ext |-> ext],
              predict(Globals, question, image, repo, mode, stream, use_cache, ext))

\* ------------------------------------------------------------------ inputs of the parsers

SeqsUpTo(S, n) == UNION {[1..k -> S] : k \in 0..n}

Cat == <<"c", "a", "t">>
Dog == <<"d", "o", "g">>

\* Raw coordinate values: below, inside and above [0, 1], the two ends, the
\* non-finite floats, a numeric string, and what float() refuses.
CoordValues ==
    {Num(0 - 2 * One), Num(0 - 1), Num(0), Num(5), Num(One), Num(One + 1), Num(3 * One),
     NumStr(7), RawInf(1), RawInf(0 - 1), RawNaN, BadStr, NoneValue, Missing}

PointEntry(x, y) == Entry([x |-> x, y |-> y])

PointPool ==
    {PointEntry(Num(5), Num(6)), PointEntry(Num(One + 4), Num(0 - 2)),
     PointEntry(Num(1), Missing), PointEntry(BadStr, Num(5)),
     NoneEntry([x |-> Missing, y |-> Missing])}

PairValues == {Num(0 - 3), Num(5), Num(One + 4), BadStr}

PointRaws ==
    {RawDict("points", <<PointEntry(x, y)>>) : x \in CoordValues, y \in CoordValues}
    \cup {RawDict("points", es) : es \in SeqsUpTo(PointPool, MaxEntries)}
    \cup {RawList(items) : items \in SeqsUpTo(PairValues, 3)}
    \cup {RawTuple(items) : items \in SeqsUpTo(PairValues, 3)}
    \cup {RawDictNull("points"), RawDict("objects", <<>>), RawNone}

BoxEntry(a, b, c, d) == Entry([x_min |-> a, y_min |-> b, x_max |-> c, y_max |-> d])

BoxValues == {Num(0 - 4), Num(3), Num(One + 2), RawNaN, BadStr, Missing}

BoxPool ==
    {BoxEntry(Num(0), Num(0), Num(5), Num(5)), BoxEntry(Num(0 - 3), Num(2), Num(One + 5), Num(One)),
     BoxEntry(Num(0), Missing, Missing, Missing), BoxEntry(Num(1), Num(1), BadStr, Num(2)),
     NoneEntry([x_min |-> Missing, y_min |-> Missing, x_max |-> Missing, y_max |-> Missing])}

DetectRaws ==
    {RawDict("objects", <<BoxEntry(a, b, c, d)>>) :
        a \in BoxValues, b \in BoxValues, c \in BoxValues, d \in BoxValues}
    \cup {RawDict("objects", es) : es \in SeqsUpTo(BoxPool, MaxEntries)}
    \cup {RawDictNull("objects"), RawDict("points", <<>>), RawNone, RawList(<<>>)}

\* The external model raising: in load_model, or in the capability itself.
FaultyExts ==
    {Ext(f, "ok", "ok", RawNone) : f \in LoadFaults \ {"none"}}
    \cup {Ext("none", "raise", "ok", RawNone)}

ParsePoint ==
    \E ext \in {Ext("none", "ok", "ok", raw) : raw \in PointRaws} \cup FaultyExts :
        PointCall(Image1, Dog, RepoA, ext)

ParseDetect ==
    \E object_name \in {Cat, <<>>},
       ext \in {Ext("none", "ok", "ok", raw) : raw \in DetectRaws} \cup FaultyExts :
        DetectCall(Image1, object_name, RepoA, ext)

NextParse == ParsePoint \/ ParseDetect \/ Return

\* point and detect on every raw response of PointRaws and DetectRaws.
SpecParse == Init /\ [][NextParse]_vars

\* ------------------------------------------------------------------ claims on the parsers

InUnit(f) == f.k = "fin" /\ 0 <= f.v /\ f.v <= One

Finite(v) == v.k \in {"num", "numstr"}
Below0(v) == (Finite(v) /\ v.v < 0) \/ (v.k = "inf" /\ v.v < 0)
Above1(v) == (Finite(v) /\ v.v > One) \/ (v.k = "inf" /\ v.v > 0)
InRange(v) == Finite(v) /\ 0 <= v.v /\ v.v <= One
Numeric(v) == v.k \in {"num", "numstr", "inf", "nan"}

\* out is raw value v as the spec clamps it.
ClampedFrom(v, out) ==
    /\ InUnit(out)
    /\ Below0(v) => out = Fin(0)
    /\ Above1(v) => out = Fin(One)
    /\ InRange(v) => out = Fin(v.v)

HasXY(e) == e.t = "dict" /\ e.f.x # Missing /\ e.f.y # Missing
HasBox(e) == e.t = "dict" /\ \A i \in 1..4 : e.f[BoxFields[i]] # Missing
WellFormedBox(e) == HasBox(e) /\ \A i \in 1..4 : Numeric(e.f[BoxFields[i]])

\* The raw coordinates behind the returned ones, in raw order: per Point the
\* pair (x, y), per Detection the four box values.
PointSources(raw) ==
    IF raw.t = "dict"
    THEN LET kept == SelectSeq(raw.entries, HasXY)
         IN [i \in 1..Len(kept) |-> <<kept[i].f.x, kept[i].f.y>>]
    ELSE <<raw.items>>

BoxSources(raw) ==
    LET kept == SelectSeq(raw.entries, WellFormedBox)
    IN [i \in 1..Len(kept) |-> [j \in 1..4 |-> kept[i].f[BoxFields[j]]]]

PointReturned == call.op = "point" /\ ~call.raised
DetectReturned == call.op = "detect" /\ ~call.raised

\* C2: every coordinate that point and detect return lies in [0.0, 1.0]: a
\* raw value below 0 is returned as 0.0, one above 1 as 1.0, and one in
\* range unchanged.
C2_CoordinatesClamped ==
    /\ (PointReturned /\ call.val.t = "list") =>
          LET src == PointSources(call.args.ext.raw) IN
          \A i \in 1..Len(call.val.items) : \A j \in 1..2 :
              /\ InUnit(call.val.items[i][j])
              /\ i <= Len(src) /\ ClampedFrom(src[i][j], call.val.items[i][j])
    /\ DetectReturned =>
          LET src == BoxSources(call.args.ext.raw) IN
          \A i \in 1..Len(call.val.items) : \A j \in 1..4 :
              /\ InUnit(call.val.items[i].bbox[j])
              /\ i <= Len(src) /\ ClampedFrom(src[i][j], call.val.items[i].bbox[j])

\* point and detect have returned coordinates whose raw values were below 0,
\* above 1, infinite and not a number.
C2_Witness ==
    /\ PointReturned
    /\ call.val.t = "list"
    /\ \E i \in 1..Len(call.val.items) :
          /\ call.val.items[i][1] = Fin(One)
          /\ call.val.items[i][2] = Fin(0)
          /\ Below0(PointSources(call.args.ext.raw)[i][2])
          /\ PointSources(call.args.ext.raw)[i][1] \in {RawNaN, RawInf(1), Num(3 * One)}

\* C3: point returns, for a record with `points`, one clamped Point per entry
\* that has both x and y, in raw order, and None when none survives; for a
\* two-element list or tuple the single clamped pair; None for anything else;
\* and never an empty list.
C3_PointUnion ==
    PointReturned =>
        LET raw == call.args.ext.raw
            src == PointSources(raw)
        IN /\ call.val.t \in {"list", "none"}
           /\ call.val.t = "list" => call.val.items # <<>>
           /\ (raw.t = "dict" /\ raw.key = "points") =>
                 IF Len(src) = 0
                 THEN call.val = NoneVal
                 ELSE /\ call.val.t = "list"
                      /\ Len(call.val.items) = Len(src)
                      /\ \A i \in 1..Len(src) : \A j \in 1..2 :
                             ClampedFrom(src[i][j], call.val.items[i][j])
           /\ (raw.t \in {"list", "tuple"} /\ Len(raw.items) = 2) =>
                 /\ call.val.t = "list"
                 /\ Len(call.val.items) = 1
                 /\ \A j \in 1..2 : ClampedFrom(raw.items[j], call.val.items[1][j])
           /\ (~(raw.t = "dict" /\ raw.key = "points")
               /\ ~(raw.t \in {"list", "tuple"} /\ Len(raw.items) = 2)) =>
                 call.val = NoneVal

\* point has dropped an entry without y between two entries it returned.
C3_Witness ==
    /\ PointReturned
    /\ call.args.ext.raw.t = "dict"
    /\ Len(call.args.ext.raw.entries) = 3
    /\ ~HasXY(call.args.ext.raw.entries[2])
    /\ call.val.t = "list"
    /\ Len(call.val.items) = 2
    /\ call.val.items[1] # call.val.items[2]

\* C4: detect returns, in raw order, exactly one Detection per entry of
\* `objects` that has the four box fields with numeric values, labelled with
\* the queried object name, with the clamped box and confidence 1.0; any other
\* entry is skipped and never ends the processing of the rest.
C4_DetectSkipsMalformed ==
    (/\ call.op = "detect"
     /\ call.args.ext \notin FaultyExts
     /\ call.args.ext.raw.t = "dict"
     /\ call.args.ext.raw.key = "objects"
     /\ call.args.ext.raw.isseq) =>
        LET src == BoxSources(call.args.ext.raw) IN
        /\ ~call.raised
        /\ Len(call.val.items) = Len(src)
        /\ \A i \in 1..Len(src) :
              /\ call.val.items[i].label = call.args.object_name
              /\ call.val.items[i].confidence = Fin(One)
              /\ \A j \in 1..4 : ClampedFrom(src[i][j], call.val.items[i].bbox[j])

\* detect has returned the entries before and after a non-numeric one.
C4_Witness ==
    /\ DetectReturned
    /\ Len(call.args.ext.raw.entries) = 3
    /\ WellFormedBox(call.args.ext.raw.entries[1])
    /\ HasBox(call.args.ext.raw.entries[2])
    /\ ~WellFormedBox(call.args.ext.raw.entries[2])
    /\ WellFormedBox(call.args.ext.raw.entries[3])
    /\ Len(call.val.items) = 2
    /\ call.val.items[1].label = Cat

\* A `points` sequence of records whose x and y are absent, numbers or
\* strings.
MalformedPoints(raw) ==
    /\ raw.t = "dict"
    /\ raw.key = "points"
    /\ raw.isseq
    /\ \A i \in 1..Len(raw.entries) :
          /\ raw.entries[i].t = "dict"
          /\ raw.entries[i].f.x.k \in {"num", "numstr", "str", "missing"}
          /\ raw.entries[i].f.y.k \in {"num", "numstr", "str", "missing"}

\* C5: when the external point capability returns, point returns too (a list
\* of Points or None), whatever the raw result: an entry with a missing or
\* non-numeric x or y is skipped.
C5_PointNeverRaisesOnMalformed ==
    (/\ call.op = "point"
     /\ call.args.ext \notin FaultyExts
     /\ MalformedPoints(call.args.ext.raw)) =>
        ~call.raised

\* ------------------------------------------------------------------ questions

RECURSIVE Join(_, _)
Join(words, sep) ==
    IF Len(words) = 0
    THEN <<>>
    ELSE IF Len(words) = 1
         THEN words[1]
         ELSE words[1] \o <<sep>> \o Join(Tail(words), sep)

\* The words as a plain sentence, and as a task tag such as <MORE_DETAILED_CAPTION>.
Sentence(words) == Join(words, " ")
Tag(words) == <<"<">> \o Join(words, "_") \o <<">">>

Questions(Words) ==
    {Sentence(ws) : ws \in SeqsUpTo(Words, MaxWords)}
    \cup {Tag(ws) : ws \in SeqsUpTo(Words, MaxWords)}

\* The words the mode rules look for.
ModeWords ==
    {<<"c", "a", "p", "t", "i", "o", "n">>,
     <<"C", "A", "P", "T", "I", "O", "N">>,
     <<"D", "E", "T", "A", "I", "L", "E", "D">>,
     <<"m", "o", "r", "e">>,
     <<"d", "e", "t", "a", "i", "l", "e", "d">>,
     <<"v", "e", "r", "y">>,
     <<"l", "o", "n", "g">>,
     <<"s", "h", "o", "r", "t">>,
     <<"b", "r", "i", "e", "f">>,
     <<"w", "h", "e", "r", "e">>,
     <<"i", "s">>,
     <<"l", "o", "c", "a", "t", "e">>,
     <<"f", "i", "n", "d">>,
     <<"p", "o", "i", "n", "t">>,
     <<"d", "e", "t", "e", "c", "t">>,
     <<"b", "o", "u", "n", "d", "i", "n", "g">>,
     <<"b", "o", "x">>,
     <<"b", "b", "o", "x">>}

\* The trigger phrases of point and detect mode, articles, object names,
\* punctuation, and a word that only contains a trigger phrase.
NameWords ==
    {<<"w", "h", "e", "r", "e", " ", "i", "s">>,
     <<"p", "o", "i", "n", "t", " ", "a", "t">>,
     <<"f", "i", "n", "d", " ", "a", "l", "l">>,
     <<"f", "i", "n", "d">>,
     <<"b", "b", "o", "x">>,
     <<"b", "o", "u", "n", "d", "i", "n", "g", " ", "b", "o", "x">>,
     <<"T", "h", "e">>,
     <<"d", "o", "g">>,
     <<"D", "o", "g", "?">>,
     <<"c", "a", "r", "s", ",">>,
     <<"a", "n", "d">>,
     <<"f", "i", "n", "d", "e", "r">>}

Quiet == Ext("none", "ok", "ok", RawNone)

\* predict with no explicit mode on every question of ModeWords.
ModePredict ==
    \E question \in Questions(ModeWords) :
        PredictCall(question, Image1, RepoA, None, FALSE, FALSE, Quiet)

NextMode == ModePredict \/ Return

SpecMode == Init /\ [][NextMode]_vars

\* predict in point and detect mode on every question of NameWords.
NamePredict ==
    \E question \in Questions(NameWords), mode \in {"point", "detect"} :
        PredictCall(question, Image1, RepoA, mode, FALSE, FALSE, Quiet)

NextName == NamePredict \/ Return

SpecName == Init /\ [][NextName]_vars


\* ------------------------------------------------------------------ claims on predict's modes

\* The call of a capability that the last call of the module made: the last
\* entry of its log of external calls.
Invoked == call.log[Len(call.log)]

\* The mode a call of a capability stands for.
InvokedMode ==
    IF Invoked.cap = "caption" THEN <<"caption", Invoked.opt>> ELSE <<Invoked.cap, "">>

\* The priority order of the mode rules, on a cleaned question q.
RuleMode(q) ==
    LET has(sub) == contains(lower(q), sub) IN
    CASE has(S_caption) ->
            <<"caption",
              CASE has(S_more_detailed) \/ has(S_very_long) -> "long"
                [] has(S_detailed) \/ has(S_long) -> "normal"
                [] has(S_short) \/ has(S_brief) -> "short"
                [] q = S_CAPTION -> "short"
                [] OTHER -> "normal">>
      [] has(S_where_is) \/ has(S_locate) \/ has(S_find) \/ has(S_point) -> <<"point", "">>
      [] has(S_detect) \/ has(S_bounding_box) \/ has(S_bbox) -> <<"detect", "">>
      [] OTHER -> <<"query", "">>

AutoPredict == call.op = "predict" /\ call.args.mode = None

\* C6: with no explicit mode, predict invokes the capability (and, for a
\* caption, the length) of the first rule that the cleaned question matches, in
\* the order caption, point, detect, query; within caption in the order long,
\* normal, short, the literal CAPTION, normal.
C6_ModePriority ==
    AutoPredict => InvokedMode = RuleMode(clean_question(call.args.question))

\* A question with a point trigger and a detect trigger and no `caption` was
\* handed to the point capability.
C6_Witness ==
    /\ AutoPredict
    /\ contains(lower(call.args.question), S_find)
    /\ contains(lower(call.args.question), S_bbox)
    /\ ~contains(lower(call.args.question), S_caption)
    /\ Invoked.cap = "point"

NamePredicted == call.op = "predict" /\ call.args.mode \in {"point", "detect"}

\* s has no leading, trailing or repeated whitespace.
Collapsed(s) ==
    /\ s # <<>> => s[1] \notin Whitespace /\ s[Len(s)] \notin Whitespace
    /\ \A i \in 1..(Len(s) - 1) : ~(s[i] \in Whitespace /\ s[i + 1] \in Whitespace)

\* C7: in point and detect mode the object name handed to the capability has
\* its whitespace collapsed: no leading, trailing or repeated whitespace
\* remains after the trigger phrases and the punctuation are removed.
C7_NameCollapsed ==
    NamePredicted => Collapsed(Invoked.arg)

\* ------------------------------------------------------------------ claims on predict's failures

Modes == {"caption_short", "caption_normal", "caption_long", "point", "detect", "query"}

PredictQuestions == {<<>>, Sentence(<<S_caption>>), Sentence(<<S_find, Dog>>)}

\* A response that parses in point and detect mode, one that point cannot
\* parse (a coordinate that is no number), and one that neither can (an entry
\* that is None).
PredictRaws ==
    {RawNone,
     RawDict("points", <<PointEntry(Num(5), Num(6))>>),
     RawDict("points", <<PointEntry(BadStr, Num(5))>>),
     RawDict("points", <<NoneEntry([x |-> Missing, y |-> Missing])>>),
     RawDict("objects", <<BoxEntry(Num(0), Num(0), Num(5), Num(5))>>),
     RawDict("objects", <<BoxEntry(Num(1), Num(1), BadStr, Num(2))>>)}

PredictExts ==
    {Ext(load, cap, enc, raw) :
        load \in LoadFaults, cap \in {"ok", "raise"}, enc \in {"ok", "raise"},
        raw \in PredictRaws}

\* predict in every mode, with the external model failing in every place; at
\* most MaxCached calls with use_cache.
AnyPredict ==
    \E question \in PredictQuestions, mode \in Modes \cup {None}, use_cache \in BOOLEAN,
       ext \in PredictExts :
        /\ use_cache => Len(hist) < MaxCached
        /\ PredictCall(question, Image1, RepoA, mode, FALSE, use_cache, ext)

NextPredict == AnyPredict \/ Return

SpecPredict == Init /\ [][NextPredict]_vars

Predicted == call.op = "predict"

\* The last call returned "Error: " followed by msg, and msg was the last
\* exception reported, in the context of predict.
ErrorReply(msg) ==
    /\ ~call.raised
    /\ call.val = Str(<<"Error: ", msg>>)
    /\ call.shown # <<>>
    /\ call.shown[Len(call.shown)] = <<msg, PredictContext>>

\* The last call had to load its model, and the load was made to fail.
LoadFailed ==
    /\ call.before.model = None \/ call.before.loaded # call.args.repo
    /\ call.args.ext.load # "none"

\* The last call, a cached query, had to encode its image, and the encoding was
\* made to fail.
EncodeFailed ==
    LET question == clean_question(call.args.question)
        asked == IF Len(question) < 2 THEN S_describe ELSE question
    IN /\ \/ call.args.mode = "query"
          \/ call.args.mode = None /\ RuleMode(question) = <<"query", "">>
       /\ call.args.use_cache
       /\ CacheKey(call.args.image, asked).s \notin DOMAIN call.before.cache
       /\ call.args.ext.enc = "raise"

Failures ==
    {LoadError, EvalError, CompileError, EncodeError, CapabilityError, ValueError, TypeError,
     NotIterable, NotIterableLoop}

\* C1: predict never raises. In every mode, a failure of the model's loading,
\* of encode_image, of the invoked capability or of the parsing of its response
\* is reported to the error reporter and predict returns "Error: " followed by
\* the message of the exception; predict returns no other string.
C1_PredictNeverRaises ==
    Predicted =>
        /\ ~call.raised
        /\ call.val.t = "str" => \E msg \in Failures : ErrorReply(msg)
        /\ LoadFailed =>
               ErrorReply(CASE call.args.ext.load = "from_pretrained" -> LoadError
                            [] call.args.ext.load = "eval" -> EvalError
                            [] call.args.ext.load = "compile" -> CompileError)
        /\ ~LoadFailed /\ EncodeFailed => ErrorReply(EncodeError)
        /\ ~LoadFailed /\ ~EncodeFailed /\ call.args.ext.cap = "raise" =>
               ErrorReply(CapabilityError)
        /\ /\ ~LoadFailed
           /\ call.args.ext.cap = "ok"
           /\ call.args.mode = "point"
           /\ call.args.ext.raw = RawDict("points", <<PointEntry(BadStr, Num(5))>>)
           => ErrorReply(ValueError)
        /\ /\ ~LoadFailed
           /\ call.args.ext.cap = "ok"
           /\ call.args.mode = "point"
           /\ call.args.ext.raw = RawDict("points", <<NoneEntry([x |-> Missing, y |-> Missing])>>)
           => ErrorReply(NotIterable)

\* predict in point mode answered "Error: ..." for a response that point could
\* not parse, after the model had been loaded by an earlier call.
C1_Witness ==
    /\ Predicted
    /\ call.args.mode = "point"
    /\ call.before.loaded = call.args.repo
    /\ ErrorReply(ValueError)

\* ------------------------------------------------------------------ the model and its cache

Repos == {RepoA, RepoB}

What == <<"w", "h", "a", "t", "?">>

\* The empty key, a key of the caller's, and the key query makes.
CacheKeys == {Key(<<>>), Key(<<"k">>), CacheKey(Image1, What)}

\* The external model as encode_image meets it: its encoding may fail.
EncodeExts == {Ext("none", "ok", enc, RawNone) : enc \in {"ok", "raise"}}

LoadModel ==
    \E repo \in Repos, fault \in LoadFaults : LoadModelCall(repo, fault)

EncodeImage ==
    \E cache_key \in CacheKeys, ext \in EncodeExts : EncodeImageCall(Image1, cache_key, ext)

Query ==
    \E repo \in Repos, use_cache \in BOOLEAN :
        QueryCall(Image1, What, repo, FALSE, use_cache, Quiet)

NextModel == LoadModel \/ EncodeImage \/ ClearCacheCall \/ Query \/ Return

\* load_model, encode_image, clear_cache and query in any order.
SpecModel == Init /\ [][NextModel]_vars

\* ------------------------------------------------------------------ claims on the cache

\* The external encodes made before the i-th call of the history.
EncodesBefore(i) == IF i = 1 THEN 0 ELSE hist[i - 1].n

\* The calls of the external model's capability cap in a log.
CallsOf(log, cap) == {k \in 1..Len(log) : log[k].cap = cap}

\* The earlier calls of encode_image that returned for the key of the i-th,
\* with no clear_cache between them and the i-th: those that stored it.
StoredBy(i) ==
    {j \in 1..(i - 1) :
        /\ hist[j].op = "encode_image"
        /\ hist[j].key = hist[i].key
        /\ ~hist[j].raised
        /\ \A k \in (j + 1)..(i - 1) : hist[k].op # "clear_cache"}

\* The i-th call of the history, an encode_image, kept to the cache: a stored
\* key gets the stored handle and the model is not touched; any other goes to
\* the model, which encodes once unless its loading fails, and what it returns
\* is a handle no earlier call returned.
EncodeLaw(i) ==
    LET e == hist[i]
        encodes == CallsOf(e.log, "encode_image")
    IN IF StoredBy(i) # {}
       THEN /\ ~e.raised
            /\ e.log = <<>>
            /\ e.n = EncodesBefore(i)
            /\ \A j \in StoredBy(i) : e.val = hist[j].val
       ELSE /\ e.log # <<>>
            /\ e.n = EncodesBefore(i) + Cardinality(encodes)
            /\ Cardinality(encodes) = IF CallsOf(e.log, "move_model") # {} THEN 1 ELSE 0
            /\ ~e.raised =>
                   /\ Cardinality(encodes) = 1
                   /\ e.val.t = "encoded"
                   /\ \A j \in 1..(i - 1) : hist[j].val # e.val

\* clear_cache leaves the cache empty.
ClearLaw == hist # <<>> /\ hist[Len(hist)].op = "clear_cache" => image_cache = EmptyCache

\* C8: over any sequence of encode_image and clear_cache calls, an
\* encode_image with a key that is neither None nor empty takes the stored
\* handle, untouched model, exactly when the key was stored since the last
\* clear_cache, and otherwise has the model encode once (unless the model
\* cannot be loaded); clear_cache leaves the cache empty.
C8_EncodeCachedByKey ==
    /\ \A i \in 1..Len(hist) :
           hist[i].op = "encode_image" /\ Truthy(hist[i].key) => EncodeLaw(i)
    /\ ClearLaw

\* A key was encoded, the next call found it stored and left the model alone,
\* and clear_cache then emptied the cache.
C8_Witness ==
    /\ Len(hist) = 3
    /\ hist[1].op = "encode_image" /\ Truthy(hist[1].key) /\ ~hist[1].raised
    /\ hist[2].op = "encode_image" /\ hist[2].key = hist[1].key
    /\ hist[2].log = <<>> /\ hist[2].val = hist[1].val
    /\ hist[3].op = "clear_cache"
    /\ image_cache = EmptyCache

\* C8 as stated, for every key that is not None: the empty key included.
C8_NonNullKey ==
    /\ \A i \in 1..Len(hist) :
           hist[i].op = "encode_image" /\ hist[i].key.some => EncodeLaw(i)
    /\ ClearLaw

\* ------------------------------------------------------------------ claims on the loaded model

\* C9: whenever a model is held, `loaded` names the repository it was loaded
\* from, and a load_model(repo) that returns, returns a model loaded from repo.
C9_LoadedNamesModel ==
    /\ moondream3_model # None => loaded = moondream3_model
    /\ call.op = "load_model" /\ ~call.raised => call.val = call.args.repo

\* C10: the encoded image that query hands to the question-answering capability
\* of a model was encoded by that model.
C10_HandleOfLoadedModel ==
    call.op = "query" =>
        \A k \in CallsOf(call.log, "query") :
            call.log[k].input.t = "encoded" => call.log[k].input.by = call.log[k].model

\* ------------------------------------------------------------------ every operation

Caption ==
    \E length \in {"short", "normal", "long"} : CaptionCall(Image1, RepoA, length, FALSE, Quiet)

Point ==
    \E raw \in {RawNone, RawDict("points", <<PointEntry(Num(5), Num(6))>>)} :
        PointCall(Image1, Dog, RepoA, Ext("none", "ok", "ok", raw))

Detect ==
    \E raw \in {RawNone, RawDict("objects", <<BoxEntry(Num(0), Num(0), Num(5), Num(5))>>)} :
        DetectCall(Image1, Dog, RepoA, Ext("none", "ok", "ok", raw))

Predict ==
    \E mode \in Modes, use_cache \in BOOLEAN :
        PredictCall(What, Image1, RepoA, mode, FALSE, use_cache, Quiet)

EncodeKeyed ==
    \E cache_key \in CacheKeys \cup {NoKey} : EncodeImageCall(Image1, cache_key, Quiet)

NextAll ==
    \/ Caption \/ Point \/ Detect \/ Predict \/ Query \/ EncodeKeyed \/ ClearCacheCall
    \/ Return

\* Every operation of the module in any order.
SpecAll == Init /\ [][NextAll]_vars

\* ------------------------------------------------------------------ claims on the cache's frame

\* The call that a step ends may change the cache: a query or a predict in
\* query mode with use_cache, an encode_image with a key, or clear_cache.
MayChangeCache(c) ==
    \/ c.op = "query" /\ c.args.use_cache
    \/ c.op = "predict" /\ c.args.mode = "query" /\ c.args.use_cache
    \/ c.op = "encode_image" /\ c.args.cache_key.some
    \/ c.op = "clear_cache"

\* Cache b holds every key of cache a, with the handle a holds for it.
Extends(a, b) == \A k \in DOMAIN a : k \in DOMAIN b /\ b[k] = a[k]

\* C11: the cache changes only in a query (or predict in query mode) with
\* use_cache, an encode_image with a key, or clear_cache; caption, point,
\* detect, query without use_cache and predict in caption, point and detect
\* mode leave it as it is; and in every step but clear_cache it only grows: no
\* key is removed and no stored handle replaced.
C11_CacheFrame ==
    [][/\ image_cache' # image_cache => MayChangeCache(call')
       /\ call'.op \in {"caption", "point", "detect"} => image_cache' = image_cache
       /\ call'.op = "query" /\ ~call'.args.use_cache => image_cache' = image_cache
       /\ call'.op = "predict" /\ call'.args.mode # "query" => image_cache' = image_cache
       /\ call'.op # "clear_cache" => Extends(image_cache, image_cache')]_vars

\* With two keys stored, a caption left the cache alone after an encode_image
\* had added the second key to the first.
C11_Witness ==
    /\ call.op = "caption"
    /\ Cardinality(DOMAIN image_cache) = 2
    /\ image_cache = call.before.cache
    /\ Len(hist) = 2
    /\ hist[2].op = "encode_image" /\ ~hist[2].raised /\ hist[2].log # <<>>


=========================================================================
